---- MODULE Spec2Model ----
(***************************************************************************)
(* Athena: the retrieval-augmented answering pipeline.                     *)
(*                                                                         *)
(* One AthenaChat session (src/src/chat_engine.py) and one answer_stream   *)
(* closure of make_qa_chain (src/src/qa_engine.py), each driven by a       *)
(* consumer that pulls the generator (next), closes it, or - between two   *)
(* pulls of chat_stream - calls another method of the session.  The        *)
(* inference backend is the environment: what requests.post returns or     *)
(* raises, and each line (or exception) response.iter_lines() produces.    *)
(* A second AthenaChat session, and the index of semantic_search.py with   *)
(* its search, stand beside them under specifications of their own.        *)
(*                                                                         *)
(* Text is a sequence of one-character strings, so that str.strip,         *)
(* str.lower and "".join are computed and not assumed.  The fixed texts of *)
(* error messages are kept as one fragment each, in ASCII: the cross mark  *)
(* that starts them in the source is written "[X]", the warning sign       *)
(* "[!]", and quote marks inside them are left out.                        *)
(***************************************************************************)
EXTENDS Integers, Sequences, FiniteSets, TLC

VARIABLES
    chat_history,   \* self.chat_history: sequence of turns
    pdf_context,    \* self.pdf_context: None or a text
    cache,          \* self._response_cache: function key -> answer
    path,           \* the call in progress: none, chat_stream, chat, answer_stream
    msg,            \* its user_message / question
    docs,           \* answer_stream's local docs: the passages retrieved
    prompt,         \* the prompt the call built for its request
    cache_key,      \* chat_stream's local cache_key
    pc,             \* where the generator stands
    wire,           \* what the backend will still send on this response
    resp,           \* what requests.post returned or raised
    log,            \* the lines iter_lines() produced so far, in order
    out,            \* the items delivered to the consumer so far, in order
    full_response,  \* chat_stream's local full_response
    nreq,           \* requests.post calls issued by this call
    closing,        \* answer_stream is running inside close()
    raised,         \* an exception escaped to the caller
    lastOp,         \* the operation the last step belongs to
    other,          \* a second AthenaChat object: its three attributes
    index,          \* the index under construction, and its handle
    search,         \* the last call of search_semantic
    settings,       \* self.model and self.temperature
    result          \* what get_history / export_history returned and wrote

vars == <<chat_history, pdf_context, cache, path, msg, docs, prompt, cache_key,
          pc, wire, resp, log, out, full_response, nreq, closing, raised,
          lastOp, other, index, search, settings, result>>

session == <<chat_history, pdf_context, cache>>
call == <<path, msg, docs, prompt, cache_key, pc, wire, resp, log, out,
          full_response, nreq, closing, raised>>
\* what the first session and its calls never touch
aside == <<other, index, search>>
\* what the session is constructed with, and what its two reporting
\* methods gave
frame == <<settings, result>>

----------------------------------------------------------------------------
(* Bounds of the model *)

\* lines a free-running backend sends on one response before it must end
MaxRecords == 2
\* chat calls are started only while chat_history is shorter than this
MaxTurns == 2
\* the longest message handed to _get_cache_key on its own
MaxMessageLen == 3
\* the longest chat_history a prompt is built from on its own
MaxHistory == 4

----------------------------------------------------------------------------
(* Text *)

Whitespace == {" "}

RECURSIVE LStrip(_)
LStrip(s) ==
    IF s = <<>> THEN s
    ELSE IF Head(s) \in Whitespace THEN LStrip(Tail(s)) ELSE s

RECURSIVE RStrip(_)
RStrip(s) ==
    IF s = <<>> THEN s
    ELSE IF s[Len(s)] \in Whitespace THEN RStrip(SubSeq(s, 1, Len(s) - 1))
    ELSE s

\* str.strip()
Strip(s) == RStrip(LStrip(s))

LowerChar(c) == IF c = "H" THEN "h" ELSE c

\* str.lower()
Lower(s) == [i \in 1..Len(s) |-> LowerChar(s[i])]

\* "".join(parts)
RECURSIVE Join(_)
Join(parts) ==
    IF parts = <<>> THEN <<>> ELSE Head(parts) \o Join(Tail(parts))

\* s[:n]
Prefix(s, n) == SubSeq(s, 1, IF Len(s) < n THEN Len(s) ELSE n)

----------------------------------------------------------------------------
(* The session's values *)

NoContext == [some |-> FALSE, text |-> <<>>]
SomeContext(t) == [some |-> TRUE, text |-> t]

PdfTexts == { <<"d">>, <<"e">> }

\* two spellings of one question, and a message of whitespace only
Messages == { <<"H", "i", " ">>, <<"h", "i">>, <<" ">> }

EmptyCache == [k \in {} |-> <<>>]

CachePrefixLen == 1000

\* hashlib.md5(b).hexdigest(): a digest, taken to be free of collisions
Md5Hex(s) == [md5 |-> s]

\* hashlib.md5(b).hexdigest()[:8]
Md5Hex8(s) == [md5_8 |-> s]

\* (self.pdf_context or "")
ContextOrEmpty(ctx) == IF ctx.some THEN ctx.text ELSE <<>>

\* _get_cache_key as it would be without .lower()
_get_cache_key_case_sensitive(ctx, user_message) ==
    <<Md5Hex8(Prefix(ContextOrEmpty(ctx), CachePrefixLen)), "_",
      Md5Hex(Strip(user_message))>>

_get_cache_key(ctx, user_message) ==
    <<Md5Hex8(Prefix(ContextOrEmpty(ctx), CachePrefixLen)), "_",
      Md5Hex(Strip(Lower(user_message)))>>

\* datetime.now(): a reading of the wall clock, which may also stand still
Clock == {1, 2}

Turn(now, user_message, assistant_message) ==
    [timestamp |-> now, user |-> user_message, assistant |-> assistant_message]

RecentTurns == 3

\* s[-n:]
Suffix(s, n) == SubSeq(s, IF Len(s) > n THEN Len(s) - n + 1 ELSE 1, Len(s))

\* "\n".join(lines)
RECURSIVE JoinLines(_)
JoinLines(lines) ==
    IF lines = <<>> THEN <<>>
    ELSE IF Len(lines) = 1 THEN Head(lines)
    ELSE Head(lines) \o <<"\n">> \o JoinLines(Tail(lines))

StartOfConversation == <<"This is the start of the conversation.">>

\* the two lines of one exchange
ExchangeLines(exchange) ==
    << <<"User: ">> \o exchange.user, <<"Athena: ">> \o exchange.assistant >>

RECURSIVE ContextLines(_)
ContextLines(recent) ==
    IF recent = <<>> THEN <<>>
    ELSE ExchangeLines(Head(recent)) \o ContextLines(Tail(recent))

\* _build_context as it would be with every exchange included
_build_context_whole(history) ==
    IF history = <<>> THEN StartOfConversation
    ELSE JoinLines(<< <<"Previous conversation:">> >> \o ContextLines(history))

_build_context(history) ==
    IF history = <<>> THEN StartOfConversation
    ELSE JoinLines(<< <<"Previous conversation:">> >>
                   \o ContextLines(Suffix(history, RecentTurns)))

ExcerptLen == 1500

NoPrompt == <<>>

\* if self.pdf_context: neither None nor the empty text
HasDocument(ctx) == ctx.some /\ ctx.text # <<>>

\* ChatPrompt as it would be with the whole document put in
ChatPromptWholeDocument(ctx, history, user_message) ==
    IF HasDocument(ctx)
    THEN <<"You are Athena, an AI research assistant.\n\nDOCUMENT:\n">>
         \o ctx.text \o <<"\n\n">>
         \o _build_context(history)
         \o <<"\n\nUser: ">> \o user_message \o <<"\nAthena:">>
    ELSE <<"You are Athena, an AI research assistant. Youre knowledgeable, helpful, and professional.\n\n">>
         \o _build_context(history)
         \o <<"\n\nUser: ">> \o user_message \o <<"\nAthena:">>

\* the prompt of chat_stream, by its two templates
ChatPrompt(ctx, history, user_message) ==
    IF HasDocument(ctx)
    THEN <<"You are Athena, an AI research assistant.\n\nDOCUMENT:\n">>
         \o Prefix(ctx.text, ExcerptLen) \o <<"\n\n">>
         \o _build_context(history)
         \o <<"\n\nUser: ">> \o user_message \o <<"\nAthena:">>
    ELSE <<"You are Athena, an AI research assistant. Youre knowledgeable, helpful, and professional.\n\n">>
         \o _build_context(history)
         \o <<"\n\nUser: ">> \o user_message \o <<"\nAthena:">>

----------------------------------------------------------------------------
(* The inference backend, as the two generators see it *)

\* requests.exceptions: ConnectTimeout derives from both ConnectionError and
\* Timeout, ReadTimeout from Timeout alone, ChunkedEncodingError from neither.
\* AttributeError and RetrieverError are raised by the program's own calls.
Exceptions ==
    {"ConnectionError", "ConnectTimeout", "ReadTimeout", "ChunkedEncodingError"}

\* what requests.post may raise, and what iter_lines() may raise once the
\* connection stands
PostExceptions == Exceptions
StreamExceptions == Exceptions \ {"ConnectTimeout"}

IsConnectionError(e) == e \in {"ConnectionError", "ConnectTimeout"}

IsTimeout(e) == e \in {"ConnectTimeout", "ReadTimeout"}

\* str(e)
ExcText(e) == e

NoResp == [kind |-> "none", status |-> "", body |-> "", exc |-> ""]
HttpResp(code, body) == [kind |-> "http", status |-> code, body |-> body, exc |-> ""]
ExcResp(e) == [kind |-> "exc", status |-> "", body |-> "", exc |-> e]

ErrorStatusCodes == {"404", "500"}
ErrorBodies == {"model not found"}

\* One line of response.iter_lines(), by what the loop body can tell apart:
\*   blank     an empty line                          (if line: is false)
\*   badjson   json.loads raises JSONDecodeError
\*   nonobject json.loads returns a list, number, string or null
\*   object    a JSON object; response is data.get("response", ""),
\*             done is data.get("done", False)
\*   exc       iter_lines() raised instead of producing a line
Rec(k, t, d, e) == [kind |-> k, response |-> t, done |-> d, exc |-> e]
Blank == Rec("blank", <<>>, FALSE, "")
BadJson == Rec("badjson", <<>>, FALSE, "")
NonObject == Rec("nonobject", <<>>, FALSE, "")
Obj(t, d) == Rec("object", t, d, "")
Raised(e) == Rec("exc", <<>>, FALSE, e)

FreeTokens == { <<>>, <<" ">>, <<"a">> }

FreeRecords ==
    {Blank, BadJson, NonObject} \cup {Obj(t, d) : t \in FreeTokens, d \in BOOLEAN}

\* The stubbed backend of the end-to-end scenario
ParisScript ==
    << Obj(<<"P", "a", "r", "i", "s">>, FALSE),
       Obj(<<" ", "i", "s">>, FALSE),
       Obj(<<" ", "t", "h", "e">>, FALSE),
       Obj(<<" ", "c", "a", "p", "i", "t", "a", "l">>, FALSE),
       Obj(<<".">>, TRUE) >>

ParisAnswer ==
    <<"P", "a", "r", "i", "s", " ", "i", "s", " ", "t", "h", "e", " ",
      "c", "a", "p", "i", "t", "a", "l", ".">>

FreeWire == [scripted |-> FALSE, rest |-> <<>>]
Scripted(lines) == [scripted |-> TRUE, rest |-> lines]
Wires == {FreeWire, Scripted(ParisScript)}

----------------------------------------------------------------------------
(* Messages the generators yield *)

ChatConnMsg ==
    <<"[X] Could not connect to Ollama. Make sure it is running: ollama serve">>
ChatTimeoutMsg ==
    <<"[X] Request timed out. The model is taking too long to respond.">>
ChatStatusMsg(code, body) == <<"[X] Error: ", code>>
ChatOtherMsg(e) == <<"[X] Error: ", ExcText(e)>>

\* ChatExceptMsg as it would be with the last except clause alone
ChatExceptMsgGeneric(e) == ChatOtherMsg(e)

\* the except clauses of chat_stream, in their order
ChatExceptMsg(e) ==
    IF IsConnectionError(e) THEN ChatConnMsg
    ELSE IF IsTimeout(e) THEN ChatTimeoutMsg
    ELSE ChatOtherMsg(e)

QaNoContextMsg == <<"[!] No relevant context found in the document.">>
QaTimeoutMsg ==
    <<"[X] Request timed out. The model might be processing a large context.">>
QaConnMsg ==
    <<"[X] Could not connect to Ollama. Make sure it is running on http://localhost:11434">>
QaStatusMsg(code, body) == <<"[X] Ollama API error ", code, ": ", body>>
QaOtherMsg(e) == <<"[X] Error during Q&A: ", ExcText(e)>>

\* the except clauses of answer_stream, in their order
QaExceptMsg(e) ==
    IF IsTimeout(e) THEN QaTimeoutMsg
    ELSE IF IsConnectionError(e) THEN QaConnMsg
    ELSE QaOtherMsg(e)

IsChat(p) == p \in {"chat_stream", "chat"}

ExceptMsg(p, e) == IF IsChat(p) THEN ChatExceptMsg(e) ELSE QaExceptMsg(e)
StatusMsg(p, code, body) ==
    IF IsChat(p) THEN ChatStatusMsg(code, body) ELSE QaStatusMsg(code, body)

----------------------------------------------------------------------------
(* Where a generator stands *)

\* no call yet, StopIteration, closed, or close() raised RuntimeError
Ended == {"none", "finished", "closed", "close_raised"}
\* executing inside next() or close(), at the network
Running == {"post", "lines"}
\* suspended at a yield that ends the generator when it is resumed
LastYields == {"y_cached", "y_status", "y_error", "y_nocontext"}
\* created and not started, or suspended at a yield
Suspended == {"new", "y_token"} \cup LastYields

NoKey == <<>>

Questions == { <<"q">>, <<" ">> }

\* AthenaChat(): chat_history = [], pdf_context = None, _response_cache = {}
NewSession ==
    [chat_history |-> <<>>, pdf_context |-> NoContext, cache |-> EmptyCache]

\* no index is being built and no handle has been returned
NoIndex ==
    [fn |-> "none", pdf_text |-> <<>>, stage |-> "none", embed |-> FALSE,
     texts |-> <<>>, built |-> FALSE, handle |-> FALSE, raised |-> "none"]

\* search_semantic has not been called
NoSearch ==
    [query |-> <<>>, k |-> 0, scores |-> <<>>, found |-> <<>>,
     returned |-> <<>>, raised |-> FALSE, searched |-> FALSE]

\* AthenaChat(): model = "llama3.2:1b", temperature = 0.3
DefaultSettings == [model |-> "llama3.2:1b", temperature |-> "0.3"]

\* neither get_history nor export_history has been called; no file written
NoResult ==
    [op |-> "none", value |-> <<>>, file |-> [name |-> "", text |-> <<>>]]

AsideInit ==
    /\ other = NewSession
    /\ index = NoIndex
    /\ search = NoSearch
    /\ settings = DefaultSettings
    /\ result = NoResult

Init ==
    /\ chat_history = <<>>
    /\ pdf_context = NoContext
    /\ cache = EmptyCache
    /\ path = "none"
    /\ msg = <<>>
    /\ prompt = NoPrompt
    /\ cache_key = NoKey
    /\ pc = "none"
    /\ wire = FreeWire
    /\ resp = NoResp
    /\ log = <<>>
    /\ out = <<>>
    /\ full_response = <<>>
    /\ nreq = 0
    /\ closing = FALSE
    /\ raised = FALSE
    /\ lastOp = "init"
    /\ docs = <<>>
    /\ AsideInit

----------------------------------------------------------------------------
(* The session's methods.  A method of the session runs only while no      *)
(* generator is executing: the program has one thread of control.          *)

\* The QA chain shares no state with the chat session (the closure of
\* make_qa_chain holds only its retriever and model name): a run exercises
\* the one or the other.
QaRun == path = "answer_stream" \/ lastOp = "init"
ChatRun == path # "answer_stream"

Quiescent == ChatRun /\ pc \notin Running /\ (path = "chat" => pc \in Ended)

\* the call variables when no call is on record
NoCall ==
    /\ path' = "none"
    /\ msg' = <<>>
    /\ docs' = <<>>
    /\ prompt' = NoPrompt
    /\ pc' = "none"
    /\ cache_key' = NoKey
    /\ out' = <<>>
    /\ wire' = FreeWire
    /\ resp' = NoResp
    /\ log' = <<>>
    /\ full_response' = <<>>
    /\ nreq' = 0
    /\ closing' = FALSE
    /\ raised' = FALSE

\* a method of the session leaves a live generator as it is; the record of
\* a call that has ended is dropped
OtherCalls == IF pc \in Ended THEN NoCall ELSE UNCHANGED call

set_pdf_context(pdf_text) ==
    /\ Quiescent
    /\ pdf_context' = SomeContext(pdf_text)
    /\ cache' = EmptyCache
    /\ lastOp' = "set_pdf_context"
    /\ UNCHANGED <<aside, frame>>
    /\ UNCHANGED chat_history
    /\ OtherCalls

\* clear_history as it would be without its second statement
clear_history_keeping_cache ==
    /\ Quiescent
    /\ chat_history' = <<>>
    /\ lastOp' = "clear_history"
    /\ UNCHANGED <<aside, frame>>
    /\ UNCHANGED <<pdf_context, cache>>
    /\ OtherCalls

clear_history ==
    /\ Quiescent
    /\ chat_history' = <<>>
    /\ cache' = EmptyCache
    /\ lastOp' = "clear_history"
    /\ UNCHANGED <<aside, frame>>
    /\ UNCHANGED pdf_context
    /\ OtherCalls

\* clear_pdf_context as it would be without its second statement
clear_pdf_context_keeping_cache ==
    /\ Quiescent
    /\ pdf_context' = NoContext
    /\ lastOp' = "clear_pdf_context"
    /\ UNCHANGED <<aside, frame>>
    /\ UNCHANGED <<chat_history, cache>>
    /\ OtherCalls

clear_pdf_context ==
    /\ Quiescent
    /\ pdf_context' = NoContext
    /\ cache' = EmptyCache
    /\ lastOp' = "clear_pdf_context"
    /\ UNCHANGED <<aside, frame>>
    /\ UNCHANGED chat_history
    /\ OtherCalls

----------------------------------------------------------------------------
(* A call begins *)

NewCall(p, m, at, key, items, text) ==
    /\ path' = p
    /\ msg' = m
    /\ docs' = <<>>
    /\ prompt' = text
    /\ pc' = at
    /\ cache_key' = key
    /\ out' = items
    /\ wire' = FreeWire
    /\ resp' = NoResp
    /\ log' = <<>>
    /\ full_response' = <<>>
    /\ nreq' = 0
    /\ closing' = FALSE
    /\ raised' = FALSE

\* chat_stream(user_message) is called: a generator object, nothing runs yet
chat_stream(user_message) ==
    /\ ChatRun
    /\ pc \in Ended
    /\ Len(chat_history) < MaxTurns
    /\ NewCall("chat_stream", user_message, "new", NoKey, <<>>, NoPrompt)
    /\ lastOp' = "chat_stream"
    /\ UNCHANGED <<aside, frame>>
    /\ UNCHANGED session

\* ChatStreamBegin as it would be without the cache check
ChatStreamBeginIgnoringCache ==
    /\ path = "chat_stream"
    /\ pc = "new"
    /\ cache_key' = _get_cache_key(pdf_context, msg)
    /\ out' = out
    /\ pc' = "post"
    /\ prompt' = ChatPrompt(pdf_context, chat_history, msg)
    /\ lastOp' = "next"
    /\ UNCHANGED <<aside, frame>>
    /\ UNCHANGED <<session, path, msg, docs, wire, resp, log, full_response, nreq,
                   closing, raised>>

\* the first next(): the cache check, then up to requests.post
ChatStreamBegin ==
    /\ path = "chat_stream"
    /\ pc = "new"
    /\ LET key == _get_cache_key(pdf_context, msg) IN
        /\ cache_key' = key
        /\ IF key \in DOMAIN cache
           THEN /\ out' = Append(out, cache[key])
                /\ pc' = "y_cached"
                /\ prompt' = prompt
           ELSE /\ out' = out
                /\ pc' = "post"
                /\ prompt' = ChatPrompt(pdf_context, chat_history, msg)
    /\ lastOp' = "next"
    /\ UNCHANGED <<aside, frame>>
    /\ UNCHANGED <<session, path, msg, docs, wire, resp, log, full_response, nreq,
                   closing, raised>>

\* chat(user_message): its own cache check, then the loop over chat_stream,
\* whose cache check sees the same cache
chat(user_message) ==
    /\ ChatRun
    /\ pc \in Ended
    /\ Len(chat_history) < MaxTurns
    /\ LET key == _get_cache_key(pdf_context, user_message) IN
        IF key \in DOMAIN cache
        THEN NewCall("chat", user_message, "finished", key, <<cache[key]>>,
                     NoPrompt)
        ELSE NewCall("chat", user_message, "post", key, <<>>,
                     ChatPrompt(pdf_context, chat_history, user_message))
    /\ lastOp' = "chat"
    /\ UNCHANGED <<aside, frame>>
    /\ UNCHANGED session

\* what chat() returns once it has ended: the cached answer, or the join of
\* the chunks it collected
ChatReturns == Join(out)

\* answer_stream(question) is called
answer_stream(question) ==
    /\ QaRun
    /\ pc \in Ended
    /\ NewCall("answer_stream", question, "new", NoKey, <<>>, NoPrompt)
    /\ lastOp' = "answer_stream"
    /\ UNCHANGED <<aside, frame>>
    /\ UNCHANGED session

\* a yield: inside close() it makes close() raise RuntimeError and the item
\* is lost; otherwise the item is delivered and the generator is suspended
Yield(item, at) ==
    IF closing
    THEN /\ pc' = "close_raised"
         /\ raised' = TRUE
         /\ out' = out
    ELSE /\ pc' = at
         /\ raised' = raised
         /\ out' = Append(out, item)

\* the lists retriever.invoke(question) may return, each passage by its
\* page_content
DocLists ==
    { <<>>, << <<"p">> >>, << <<"p">>, <<"r">> >>, << <<"r">>, <<"p">> >> }

\* retriever.invoke(question) returns a list of passages, or raises
RetrievalOutcomes ==
    {[kind |-> "docs", docs |-> d] : d \in DocLists}
    \cup {[kind |-> "raises", docs |-> <<>>]}

\* "\n\n---\n\n".join(page contents)
RECURSIVE JoinPassages(_)
JoinPassages(ds) ==
    IF ds = <<>> THEN <<>>
    ELSE IF Len(ds) = 1 THEN Head(ds)
    ELSE Head(ds) \o <<"\n\n---\n\n">> \o JoinPassages(Tail(ds))

\* QaPrompt as it would be with the passages put one after the other
QaPromptUnseparated(ds, question) ==
    <<"You are Athena, an intelligent AI research assistant.\nAnswer the question based strictly on the provided context below.\nIf the context doesnt contain enough information, say: ",
      "I dont have enough information from this document to answer that question.",
      "\n\nContext:\n">>
    \o Join(ds)
    \o <<"\n\nQuestion: ">> \o question \o <<"\n\nAnswer:">>

\* the prompt of answer_stream
QaPrompt(ds, question) ==
    <<"You are Athena, an intelligent AI research assistant.\nAnswer the question based strictly on the provided context below.\nIf the context doesnt contain enough information, say: ",
      "I dont have enough information from this document to answer that question.",
      "\n\nContext:\n">>
    \o JoinPassages(ds)
    \o <<"\n\nQuestion: ">> \o question \o <<"\n\nAnswer:">>

\* the first next() of answer_stream: retrieval, then up to requests.post
AnswerStreamBegin(outcome) ==
    /\ path = "answer_stream"
    /\ pc = "new"
    /\ IF outcome.kind = "raises"
       THEN /\ Yield(QaExceptMsg("RetrieverError"), "y_error")
            /\ UNCHANGED <<docs, prompt>>
       ELSE IF outcome.docs = <<>>
       THEN /\ Yield(QaNoContextMsg, "y_nocontext")
            /\ UNCHANGED <<docs, prompt>>
       ELSE /\ pc' = "post"
            /\ docs' = outcome.docs
            /\ prompt' = QaPrompt(outcome.docs, msg)
            /\ UNCHANGED <<out, raised>>
    /\ lastOp' = "next"
    /\ UNCHANGED <<aside, frame>>
    /\ UNCHANGED <<session, path, msg, cache_key, wire, resp, log,
                   full_response, nreq, closing>>

----------------------------------------------------------------------------
(* requests.post *)

\* PostRaises as it would be with the request re-issued after a failure
PostRaisesRetrying(e) ==
    /\ pc = "post"
    /\ nreq' = nreq + 1
    /\ resp' = ExcResp(e)
    /\ pc' = "post"
    /\ lastOp' = "next"
    /\ UNCHANGED <<aside, frame>>
    /\ UNCHANGED <<session, path, msg, docs, prompt, cache_key, wire, log, out,
                   full_response, closing, raised>>

PostRaises(e) ==
    /\ pc = "post"
    /\ nreq' = nreq + 1
    /\ resp' = ExcResp(e)
    /\ Yield(ExceptMsg(path, e), "y_error")
    /\ lastOp' = "next"
    /\ UNCHANGED <<aside, frame>>
    /\ UNCHANGED <<session, path, msg, docs, prompt, cache_key, wire, log, full_response,
                   closing>>

\* response.status_code != 200
PostStatus(code, body) ==
    /\ pc = "post"
    /\ nreq' = nreq + 1
    /\ resp' = HttpResp(code, body)
    /\ Yield(StatusMsg(path, code, body), "y_status")
    /\ lastOp' = "next"
    /\ UNCHANGED <<aside, frame>>
    /\ UNCHANGED <<session, path, msg, docs, prompt, cache_key, wire, log, full_response,
                   closing>>

\* status 200: full_response = [] and the loop over iter_lines() begins
PostOk(w) ==
    /\ pc = "post"
    /\ nreq' = nreq + 1
    /\ resp' = HttpResp("200", "")
    /\ wire' = w
    /\ pc' = "lines"
    /\ lastOp' = "next"
    /\ UNCHANGED <<aside, frame>>
    /\ UNCHANGED <<session, path, msg, docs, prompt, cache_key, log, out, full_response,
                   closing, raised>>

----------------------------------------------------------------------------
(* The loop over response.iter_lines() *)

\* the lines the backend may send next
Offered ==
    IF wire.scripted
    THEN IF wire.rest = <<>> THEN {} ELSE {Head(wire.rest)}
    ELSE IF Len(log) < MaxRecords THEN FreeRecords ELSE {}

\* the response may end here
MayEnd == wire.scripted => wire.rest = <<>>

\* SaveResponse as it would be without .strip()
SaveResponseUnstripped ==
    LET assistant_message == Join(full_response) IN
    IF assistant_message # <<>>
    THEN /\ \E now \in Clock :
              chat_history' =
                  Append(chat_history, Turn(now, msg, assistant_message))
         /\ cache' = (cache_key :> assistant_message) @@ cache
    ELSE UNCHANGED <<chat_history, cache>>

\* SaveResponse as it would be without the test of assistant_message
SaveResponseAlways ==
    LET assistant_message == Strip(Join(full_response)) IN
    /\ \E now \in Clock :
         chat_history' =
             Append(chat_history, Turn(now, msg, assistant_message))
    /\ cache' = (cache_key :> assistant_message) @@ cache

\* SaveResponse as it would be with the new turn put first
SaveResponsePrepending ==
    LET assistant_message == Strip(Join(full_response)) IN
    IF assistant_message # <<>>
    THEN /\ \E now \in Clock :
              chat_history' =
                  <<Turn(now, msg, assistant_message)>> \o chat_history
         /\ cache' = (cache_key :> assistant_message) @@ cache
    ELSE UNCHANGED <<chat_history, cache>>

\* SaveResponse as it would be with the cache written and the history not
SaveResponseCacheOnly ==
    LET assistant_message == Strip(Join(full_response)) IN
    IF assistant_message # <<>>
    THEN /\ cache' = (cache_key :> assistant_message) @@ cache
         /\ UNCHANGED chat_history
    ELSE UNCHANGED <<chat_history, cache>>

\* chat_stream after the loop: the response is saved to history and cache
SaveResponse ==
    LET assistant_message == Strip(Join(full_response)) IN
    IF assistant_message # <<>>
    THEN /\ \E now \in Clock :
              chat_history' =
                  Append(chat_history, Turn(now, msg, assistant_message))
         /\ cache' = (cache_key :> assistant_message) @@ cache
    ELSE UNCHANGED <<chat_history, cache>>

\* Finish as it would be with chat() keeping the answer to itself
FinishStreamOnly ==
    /\ IF path = "chat_stream" THEN SaveResponse
       ELSE UNCHANGED <<chat_history, cache>>
    /\ pc' = IF closing THEN "closed" ELSE "finished"
    /\ UNCHANGED pdf_context

\* the loop is left by break or by the end of the response; the generator
\* runs to its end
Finish ==
    /\ IF IsChat(path) THEN SaveResponse ELSE UNCHANGED <<chat_history, cache>>
    /\ pc' = IF closing THEN "closed" ELSE "finished"
    /\ UNCHANGED pdf_context

\* the loop goes on to the next line
SkipLine ==
    /\ pc' = "lines"
    /\ UNCHANGED <<session, out, full_response, raised>>

\* OnNonObject as it would be with the error reported from inside the loop
OnNonObjectGoingOn ==
    IF IsChat(path)
    THEN /\ Yield(ChatExceptMsg("AttributeError"), "y_token")
         /\ UNCHANGED <<session, full_response>>
    ELSE SkipLine

\* data.get on a value that is no dict raises AttributeError: chat_stream
\* catches only JSONDecodeError in the loop, answer_stream catches everything
OnNonObject ==
    IF IsChat(path)
    THEN /\ Yield(ChatExceptMsg("AttributeError"), "y_error")
         /\ UNCHANGED <<session, full_response>>
    ELSE SkipLine

\* OnObject as it would be with the done flag looked at before the yield:
\* the answer is saved as the token of the last record is delivered
OnObjectSavingAtDelivery(r) ==
    IF r.response # <<>>
    THEN /\ full_response' =
              IF IsChat(path) THEN Append(full_response, r.response)
              ELSE full_response
         /\ Yield(r.response, "y_token")
         /\ IF IsChat(path) /\ r.done
            THEN /\ \E now \in Clock :
                      chat_history' =
                          Append(chat_history,
                                 Turn(now, msg, Strip(Join(full_response'))))
                 /\ cache' = (cache_key :> Strip(Join(full_response'))) @@ cache
                 /\ UNCHANGED pdf_context
            ELSE UNCHANGED session
    ELSE IF r.done
         THEN /\ Finish
              /\ UNCHANGED <<out, full_response, raised>>
         ELSE SkipLine

\* a JSON object: the token first, then the done flag
OnObject(r) ==
    IF r.response # <<>>
    THEN /\ full_response' =
              IF IsChat(path) THEN Append(full_response, r.response)
              ELSE full_response
         /\ Yield(r.response, "y_token")
         /\ UNCHANGED session
    ELSE IF r.done
         THEN /\ Finish
              /\ UNCHANGED <<out, full_response, raised>>
         ELSE SkipLine

\* iter_lines() produces a line
ReadLine(r) ==
    /\ pc = "lines"
    /\ r \in Offered
    /\ log' = Append(log, r)
    /\ wire' = IF wire.scripted THEN Scripted(Tail(wire.rest)) ELSE wire
    /\ CASE r.kind = "blank" -> SkipLine
         [] r.kind = "badjson" -> SkipLine
         [] r.kind = "nonobject" -> OnNonObject
         [] r.kind = "object" -> OnObject(r)
    /\ lastOp' = "next"
    /\ UNCHANGED <<aside, frame>>
    /\ UNCHANGED <<path, msg, docs, prompt, cache_key, resp, nreq, closing>>

\* iter_lines() is exhausted
ReadEnd ==
    /\ pc = "lines"
    /\ MayEnd
    /\ Finish
    /\ lastOp' = "next"
    /\ UNCHANGED <<aside, frame>>
    /\ UNCHANGED <<path, msg, docs, prompt, cache_key, wire, resp, log, out, full_response,
                   nreq, closing, raised>>

\* ReadRaises as it would be with the partial response saved by the handler
ReadRaisesSaving(e) ==
    /\ pc = "lines"
    /\ ~wire.scripted
    /\ log' = Append(log, Raised(e))
    /\ Yield(ExceptMsg(path, e), "y_error")
    /\ IF IsChat(path) THEN SaveResponse ELSE UNCHANGED <<chat_history, cache>>
    /\ lastOp' = "next"
    /\ UNCHANGED <<aside, frame>>
    /\ UNCHANGED <<pdf_context, path, msg, docs, prompt, cache_key, wire, resp, full_response,
                   nreq, closing>>

\* iter_lines() raises
ReadRaises(e) ==
    /\ pc = "lines"
    /\ ~wire.scripted
    /\ log' = Append(log, Raised(e))
    /\ Yield(ExceptMsg(path, e), "y_error")
    /\ lastOp' = "next"
    /\ UNCHANGED <<aside, frame>>
    /\ UNCHANGED <<session, path, msg, docs, prompt, cache_key, wire, resp, full_response,
                   nreq, closing>>

----------------------------------------------------------------------------
(* The consumer *)

\* in chat() the consumer is the for loop of chat itself: it only pulls
ConsumerMayStop == path \in {"chat_stream", "answer_stream"}

\* next() at yield token: the done flag of the record just handled
ResumeToken ==
    /\ pc = "y_token"
    /\ IF log[Len(log)].done
       THEN Finish
       ELSE /\ pc' = "lines"
            /\ UNCHANGED session
    /\ lastOp' = "next"
    /\ UNCHANGED <<aside, frame>>
    /\ UNCHANGED <<path, msg, docs, prompt, cache_key, wire, resp, log, out, full_response,
                   nreq, closing, raised>>

\* next() at a yield that is followed by return or by the end of the body
ResumeLast ==
    /\ pc \in LastYields
    /\ pc' = "finished"
    /\ lastOp' = "next"
    /\ UNCHANGED <<aside, frame>>
    /\ UNCHANGED <<session, path, msg, docs, prompt, cache_key, wire, resp, log, out,
                   full_response, nreq, closing, raised>>

\* Close as it would be with a bare except around yield token in chat_stream
CloseSwallowed ==
    /\ ConsumerMayStop
    /\ pc \in Suspended
    /\ IF pc = "y_token"
       THEN /\ closing' = TRUE
            /\ pc' = "lines"
       ELSE /\ closing' = closing
            /\ pc' = "closed"
    /\ lastOp' = "close"
    /\ UNCHANGED <<aside, frame>>
    /\ UNCHANGED <<session, path, msg, docs, prompt, cache_key, wire, resp, log, out,
                   full_response, nreq, raised>>

\* close() throws GeneratorExit at the yield; answer_stream's bare except
\* around yield token catches it and goes on with the loop
Close ==
    /\ ConsumerMayStop
    /\ pc \in Suspended
    /\ IF path = "answer_stream" /\ pc = "y_token"
       THEN /\ closing' = TRUE
            /\ pc' = "lines"
       ELSE /\ closing' = closing
            /\ pc' = "closed"
    /\ lastOp' = "close"
    /\ UNCHANGED <<aside, frame>>
    /\ UNCHANGED <<session, path, msg, docs, prompt, cache_key, wire, resp, log, out,
                   full_response, nreq, raised>>

----------------------------------------------------------------------------
(* _get_cache_key on its own: the context and the message are drawn, the    *)
(* method is applied once                                                  *)

MessageChars == {"H", "h", " "}

KeyMessages ==
    UNION { [1..n -> MessageChars] : n \in 0..MaxMessageLen }

\* a text one character longer than the prefix the key is taken from
LongText(last) ==
    [i \in 1..(CachePrefixLen + 1) |-> IF i <= CachePrefixLen THEN "x" ELSE last]

KeyContexts ==
    {NoContext, SomeContext(<<>>), SomeContext(<<"d">>), SomeContext(<<"e">>),
     SomeContext(LongText("a")), SomeContext(LongText("b"))}

KeyInit ==
    /\ chat_history = <<>>
    /\ pdf_context \in KeyContexts
    /\ cache = EmptyCache
    /\ path = "none"
    /\ msg \in KeyMessages
    /\ prompt = NoPrompt
    /\ cache_key = NoKey
    /\ pc = "none"
    /\ wire = FreeWire
    /\ resp = NoResp
    /\ log = <<>>
    /\ out = <<>>
    /\ full_response = <<>>
    /\ nreq = 0
    /\ closing = FALSE
    /\ raised = FALSE
    /\ lastOp = "init"
    /\ docs = <<>>
    /\ AsideInit

GetCacheKey ==
    /\ cache_key = NoKey
    /\ cache_key' = _get_cache_key(pdf_context, msg)
    /\ lastOp' = "_get_cache_key"
    /\ UNCHANGED <<aside, frame>>
    /\ UNCHANGED <<session, path, msg, docs, prompt, pc, wire, resp, log, out,
                   full_response, nreq, closing, raised>>

KeyNext == GetCacheKey

SpecKey == KeyInit /\ [][KeyNext]_vars

----------------------------------------------------------------------------
(* The prompt of chat_stream on its own: the history, the context and the  *)
(* message are drawn, the prompt is built once                             *)

HistoryTurns ==
    { Turn(1, <<"h">>, <<"a">>), Turn(2, <<"i">>, <<"b">>),
      Turn(2, <<"h">>, <<"b">>) }

Histories == UNION { [1..n -> HistoryTurns] : n \in 0..MaxHistory }

\* a document one character longer than the excerpt taken from it
LongDocument ==
    [i \in 1..(ExcerptLen + 1) |-> IF i <= ExcerptLen THEN "x" ELSE "y"]

PromptContexts ==
    {NoContext, SomeContext(<<>>), SomeContext(<<"d">>),
     SomeContext(LongDocument)}

PromptInit ==
    /\ chat_history \in Histories
    /\ pdf_context \in PromptContexts
    /\ cache = EmptyCache
    /\ path = "none"
    /\ msg = <<"h", "i">>
    /\ prompt = NoPrompt
    /\ cache_key = NoKey
    /\ pc = "none"
    /\ wire = FreeWire
    /\ resp = NoResp
    /\ log = <<>>
    /\ out = <<>>
    /\ full_response = <<>>
    /\ nreq = 0
    /\ closing = FALSE
    /\ raised = FALSE
    /\ lastOp = "init"
    /\ docs = <<>>
    /\ AsideInit

BuildPrompt ==
    /\ prompt = NoPrompt
    /\ prompt' = ChatPrompt(pdf_context, chat_history, msg)
    /\ lastOp' = "prompt"
    /\ UNCHANGED <<aside, frame>>
    /\ UNCHANGED <<session, path, msg, docs, cache_key, pc, wire, resp, log, out,
                   full_response, nreq, closing, raised>>

PromptNext == BuildPrompt

SpecPrompt == PromptInit /\ [][PromptNext]_vars

----------------------------------------------------------------------------

Next ==
    \/ \E t \in PdfTexts : set_pdf_context(t)
    \/ clear_history
    \/ clear_pdf_context
    \/ \E m \in Messages : chat_stream(m)
    \/ \E m \in Messages : chat(m)
    \/ \E q \in Questions : answer_stream(q)
    \/ ChatStreamBegin
    \/ \E o \in RetrievalOutcomes : AnswerStreamBegin(o)
    \/ \E e \in PostExceptions : PostRaises(e)
    \/ \E code \in ErrorStatusCodes, body \in ErrorBodies : PostStatus(code, body)
    \/ \E w \in Wires : PostOk(w)
    \/ \E r \in FreeRecords \cup {ParisScript[i] : i \in DOMAIN ParisScript} : ReadLine(r)
    \/ ReadEnd
    \/ \E e \in StreamExceptions : ReadRaises(e)
    \/ ResumeToken
    \/ ResumeLast
    \/ Close

Spec == Init /\ [][Next]_vars

----------------------------------------------------------------------------
(* Two AthenaChat objects.  The first is the session above; of the second  *)
(* each method is taken as a whole, a chat turn with what its backend      *)
(* answered.                                                               *)

\* what the backend of the second session answers: a failure or an empty
\* answer, or a text with a margin
OtherReplies == { <<>>, <<" ", "o", "k">> }

\* the messages and the document the two sessions are driven with
TwoMessages == { <<"h", "i">> }
TwoTexts == { <<"d">> }

\* the second session's set_pdf_context as it would be with _response_cache
\* an attribute of the class: both sessions lose their entries
OtherSetPdfContextShared(pdf_text) ==
    /\ Quiescent
    /\ other' = [other EXCEPT !.pdf_context = SomeContext(pdf_text),
                              !.cache = EmptyCache]
    /\ cache' = EmptyCache
    /\ lastOp' = "other.set_pdf_context"
    /\ UNCHANGED <<chat_history, pdf_context, frame, call, index, search>>

OtherSetPdfContext(pdf_text) ==
    /\ Quiescent
    /\ other' = [other EXCEPT !.pdf_context = SomeContext(pdf_text),
                              !.cache = EmptyCache]
    /\ lastOp' = "other.set_pdf_context"
    /\ UNCHANGED <<session, frame, call, index, search>>

OtherClearHistory ==
    /\ Quiescent
    /\ other' = [other EXCEPT !.chat_history = <<>>, !.cache = EmptyCache]
    /\ lastOp' = "other.clear_history"
    /\ UNCHANGED <<session, frame, call, index, search>>

OtherClearPdfContext ==
    /\ Quiescent
    /\ other' = [other EXCEPT !.pdf_context = NoContext,
                              !.cache = EmptyCache]
    /\ lastOp' = "other.clear_pdf_context"
    /\ UNCHANGED <<session, frame, call, index, search>>

\* chat(user_message) on the second session, from its cache check to its
\* return: on a miss the stripped reply, when it is not empty, is recorded
OtherChat(user_message, reply) ==
    /\ Quiescent
    /\ Len(other.chat_history) < MaxTurns
    /\ LET key == _get_cache_key(other.pdf_context, user_message)
           assistant_message == Strip(reply)
       IN  IF key \in DOMAIN other.cache \/ assistant_message = <<>>
           THEN other' = other
           ELSE \E now \in Clock :
                  other' =
                    [other EXCEPT
                       !.chat_history =
                           Append(@, Turn(now, user_message, assistant_message)),
                       !.cache = (key :> assistant_message) @@ @]
    /\ lastOp' = "other.chat"
    /\ UNCHANGED <<session, frame, call, index, search>>

TwoNext ==
    \/ \E t \in TwoTexts : set_pdf_context(t)
    \/ clear_history
    \/ clear_pdf_context
    \/ \E m \in TwoMessages : chat_stream(m)
    \/ \E m \in TwoMessages : chat(m)
    \/ ChatStreamBegin
    \/ \E e \in {"ReadTimeout"} : PostRaises(e)
    \/ PostOk(Scripted(ParisScript))
    \/ \E i \in DOMAIN ParisScript : ReadLine(ParisScript[i])
    \/ ResumeToken
    \/ ResumeLast
    \/ Close
    \/ \E t \in TwoTexts : OtherSetPdfContext(t)
    \/ OtherClearHistory
    \/ OtherClearPdfContext
    \/ \E m \in TwoMessages, reply \in OtherReplies : OtherChat(m, reply)

SpecTwo == Init /\ [][TwoNext]_vars

----------------------------------------------------------------------------
(* The session with its two reporting methods, get_history and             *)
(* export_history, and the settings it was constructed with.               *)

\* AthenaChat(model, temperature): the defaults, or values of the caller
SettingsChoices ==
    {DefaultSettings, [model |-> "mistral", temperature |-> "0.7"]}

ExportFilenames == {"chat_history.txt"}

\* the lines export_history writes for the exchanges from number i on
RECURSIVE ExchangeBlocks(_, _)
ExchangeBlocks(history, i) ==
    IF i > Len(history) THEN <<>>
    ELSE <<"Exchange ", ToString(i), "\n",
           "Time: ", ToString(history[i].timestamp), "\n", "User: ">>
         \o history[i].user
         \o <<"\n", "Athena: ">>
         \o history[i].assistant
         \o <<"\n", "--------------------------------------------------\n\n">>
         \o ExchangeBlocks(history, i + 1)

\* the text export_history writes
ExportText(history) ==
    <<"Athena Chat History\n",
      "==================================================\n\n">>
    \o ExchangeBlocks(history, 1)

\* get_history(): returns self.chat_history
get_history ==
    /\ Quiescent
    /\ result' = [result EXCEPT !.op = "get_history", !.value = chat_history]
    /\ lastOp' = "get_history"
    /\ UNCHANGED <<session, settings, aside>>
    /\ OtherCalls

\* export_history as it would be with the history emptied once written
export_history_draining(filename, ok) ==
    /\ Quiescent
    /\ IF ok
       THEN /\ result' = [op |-> "export_history", value |-> <<filename>>,
                          file |-> [name |-> filename,
                                    text |-> ExportText(chat_history)]]
            /\ chat_history' = <<>>
       ELSE /\ result' = [result EXCEPT !.op = "export_history",
                                        !.value = <<"IOError">>]
            /\ UNCHANGED chat_history
    /\ lastOp' = "export_history"
    /\ UNCHANGED <<pdf_context, cache, settings, aside>>
    /\ OtherCalls

\* export_history(filename): the file is opened and written and its name
\* returned, or open() raises
export_history(filename, ok) ==
    /\ Quiescent
    /\ IF ok
       THEN result' = [op |-> "export_history", value |-> <<filename>>,
                       file |-> [name |-> filename,
                                 text |-> ExportText(chat_history)]]
       ELSE result' = [result EXCEPT !.op = "export_history",
                                     !.value = <<"IOError">>]
    /\ lastOp' = "export_history"
    /\ UNCHANGED <<session, settings, aside>>
    /\ OtherCalls

FrameInit ==
    /\ chat_history = <<>>
    /\ pdf_context = NoContext
    /\ cache = EmptyCache
    /\ path = "none"
    /\ msg = <<>>
    /\ docs = <<>>
    /\ prompt = NoPrompt
    /\ cache_key = NoKey
    /\ pc = "none"
    /\ wire = FreeWire
    /\ resp = NoResp
    /\ log = <<>>
    /\ out = <<>>
    /\ full_response = <<>>
    /\ nreq = 0
    /\ closing = FALSE
    /\ raised = FALSE
    /\ lastOp = "init"
    /\ other = NewSession
    /\ index = NoIndex
    /\ search = NoSearch
    /\ settings \in SettingsChoices
    /\ result = NoResult

FrameNext ==
    \/ \E t \in TwoTexts : set_pdf_context(t)
    \/ clear_history
    \/ clear_pdf_context
    \/ \E m \in TwoMessages : chat_stream(m)
    \/ \E m \in TwoMessages : chat(m)
    \/ ChatStreamBegin
    \/ \E e \in {"ReadTimeout"} : PostRaises(e)
    \/ PostOk(Scripted(ParisScript))
    \/ \E i \in DOMAIN ParisScript : ReadLine(ParisScript[i])
    \/ ResumeToken
    \/ ResumeLast
    \/ Close
    \/ get_history
    \/ \E f \in ExportFilenames, ok \in BOOLEAN : export_history(f, ok)

SpecFrame == FrameInit /\ [][FrameNext]_vars

----------------------------------------------------------------------------
(* Index construction (build_semantic_index, make_qa_chain) and            *)
(* search_semantic.  The libraries are taken by what they do here: the     *)
(* splitter cuts the text into chunks of at most chunk_size characters,    *)
(* strips each and drops the empty ones; the vector store returns the k    *)
(* nearest chunks, nearest first.  chunk_overlap and the separators are    *)
(* left out.                                                               *)

\* the longest pdf_text an index is built from
MaxTextLen == 3
\* chunk_size, scaled down
ChunkSize == 2
\* the largest k a search is made with
MaxK == 3

IndexChars == {"a", "b", " "}
IndexTexts == UNION { [1..n -> IndexChars] : n \in 0..MaxTextLen }

IndexFns == {"build_semantic_index", "make_qa_chain"}

\* s without its first n characters
Drop(s, n) == SubSeq(s, n + 1, Len(s))

\* consecutive pieces of at most n characters
RECURSIVE Pieces(_, _)
Pieces(s, n) ==
    IF s = <<>> THEN <<>> ELSE <<Prefix(s, n)>> \o Pieces(Drop(s, n), n)

\* each piece stripped, the empty ones dropped
RECURSIVE StrippedNonEmpty(_)
StrippedNonEmpty(ps) ==
    IF ps = <<>> THEN <<>>
    ELSE LET c == Strip(Head(ps)) IN
         (IF c = <<>> THEN <<>> ELSE <<c>>) \o StrippedNonEmpty(Tail(ps))

\* text_splitter.split_text(pdf_text)
split_text(pdf_text) == StrippedNonEmpty(Pieces(pdf_text, ChunkSize))

\* the function is called: the try block is entered
BuildIndex(fn, pdf_text) ==
    /\ index.stage \in {"none", "returned", "raised"}
    /\ index' = [fn |-> fn, pdf_text |-> pdf_text, stage |-> "embed",
                 embed |-> FALSE, texts |-> <<>>, built |-> FALSE,
                 handle |-> FALSE, raised |-> "none"]
    /\ search' = NoSearch
    /\ lastOp' = fn
    /\ UNCHANGED <<session, frame, call, other>>

\* SentenceTransformerEmbeddings(...) returns the model, or raises; the
\* except clause prints and re-raises
LoadEmbedding(ok) ==
    /\ index.stage = "embed"
    /\ index' = IF ok
                THEN [index EXCEPT !.embed = TRUE, !.stage = "split"]
                ELSE [index EXCEPT !.raised = "EmbeddingError",
                                   !.stage = "raised"]
    /\ lastOp' = "embed"
    /\ UNCHANGED <<session, frame, call, other, search>>

\* SplitText as it would be without the test of texts
SplitTextUnchecked ==
    /\ index.stage = "split"
    /\ index' = [index EXCEPT !.texts = split_text(index.pdf_text),
                              !.stage = "from_texts"]
    /\ lastOp' = "split_text"
    /\ UNCHANGED <<session, frame, call, other, search>>

\* texts = text_splitter.split_text(pdf_text); if not texts: raise ValueError
SplitText ==
    /\ index.stage = "split"
    /\ LET texts == split_text(index.pdf_text) IN
         index' = IF texts = <<>>
                  THEN [index EXCEPT !.texts = texts,
                                     !.raised = "ValueError",
                                     !.stage = "raised"]
                  ELSE [index EXCEPT !.texts = texts,
                                     !.stage = "from_texts"]
    /\ lastOp' = "split_text"
    /\ UNCHANGED <<session, frame, call, other, search>>

\* FAISS.from_texts(texts, embed) (and as_retriever in make_qa_chain)
\* returns the store, or raises
FromTexts(ok) ==
    /\ index.stage = "from_texts"
    /\ index' = IF ok
                THEN [index EXCEPT !.built = TRUE, !.stage = "built"]
                ELSE [index EXCEPT !.raised = "IndexError",
                                   !.stage = "raised"]
    /\ lastOp' = "from_texts"
    /\ UNCHANGED <<session, frame, call, other, search>>

\* return vectordb / return answer
ReturnHandle ==
    /\ index.stage = "built"
    /\ index' = [index EXCEPT !.handle = TRUE, !.stage = "returned"]
    /\ lastOp' = "return"
    /\ UNCHANGED <<session, frame, call, other, search>>

SearchQueries == { <<"q">>, <<" ">>, <<>> }
Distances == {1, 2}

\* the distance of each indexed chunk from the query, as the embedding
\* has it
ScoreLists(n) == [1..n -> Distances]

\* the position, among those in left, of the nearest chunk (the first of
\* them when several are as near)
Nearest(scores, left) ==
    CHOOSE i \in left :
        \A j \in left : scores[i] < scores[j] \/ (scores[i] = scores[j] /\ i <= j)

\* vectordb.similarity_search_with_score(query, k): the k nearest chunks
\* with their distances, nearest first
RECURSIVE KNearest(_, _, _, _)
KNearest(texts, scores, left, k) ==
    IF k = 0 \/ left = {} THEN <<>>
    ELSE LET i == Nearest(scores, left) IN
         <<[page_content |-> texts[i], score |-> scores[i]]>>
         \o KNearest(texts, scores, left \ {i}, k - 1)

similarity_search_with_score(texts, scores, k) ==
    KNearest(texts, scores, DOMAIN texts, k)

\* formatted_results as it would be with the results beyond the nearest
\* distance left out
formatted_results_nearest_only(results) ==
    LET kept == SelectSeq(results, LAMBDA r : r.score = results[1].score)
    IN  [i \in DOMAIN kept |-> <<kept[i].page_content, kept[i].score>>]

\* formatted_results: (doc.page_content, distance) for each result
formatted_results(results) ==
    [i \in DOMAIN results |-> <<results[i].page_content, results[i].score>>]

\* search_semantic(vectordb, query, k) on the handle build_semantic_index
\* returned: the underlying search returns or raises
search_semantic(query, k, scores, ok) ==
    /\ index.fn = "build_semantic_index"
    /\ index.handle
    /\ scores \in ScoreLists(Len(index.texts))
    /\ IF query = <<>> \/ Strip(query) = <<>>
       THEN search' = [query |-> query, k |-> k, scores |-> scores,
                       found |-> <<>>, returned |-> <<>>, raised |-> FALSE,
                       searched |-> FALSE]
       ELSE IF ~ok
       THEN search' = [query |-> query, k |-> k, scores |-> scores,
                       found |-> <<>>, returned |-> <<>>, raised |-> TRUE,
                       searched |-> TRUE]
       ELSE LET results ==
                    similarity_search_with_score(index.texts, scores, k)
            IN  search' = [query |-> query, k |-> k, scores |-> scores,
                           found |-> results,
                           returned |-> IF results = <<>> THEN <<>>
                                        ELSE formatted_results(results),
                           raised |-> FALSE, searched |-> TRUE]
    /\ lastOp' = "search_semantic"
    /\ UNCHANGED <<session, frame, call, other, index>>

IndexNext ==
    \/ \E fn \in IndexFns, t \in IndexTexts : BuildIndex(fn, t)
    \/ \E ok \in BOOLEAN : LoadEmbedding(ok)
    \/ SplitText
    \/ \E ok \in BOOLEAN : FromTexts(ok)
    \/ ReturnHandle
    \/ \E q \in SearchQueries, k \in 0..MaxK, ok \in BOOLEAN,
          scores \in UNION {ScoreLists(n) : n \in 1..MaxTextLen} :
            search_semantic(q, k, scores, ok)

SpecIndex == Init /\ [][IndexNext]_vars

----------------------------------------------------------------------------
(* What the claims speak of *)

\* every exception the handlers may see
AllRaised == Exceptions \cup {"AttributeError", "RetrieverError"}

ChatMessages ==
    {ChatConnMsg, ChatTimeoutMsg}
    \cup {ChatStatusMsg(c, b) : c \in ErrorStatusCodes, b \in ErrorBodies}
    \cup {ChatOtherMsg(e) : e \in AllRaised}

QaMessages ==
    {QaNoContextMsg, QaConnMsg, QaTimeoutMsg}
    \cup {QaStatusMsg(c, b) : c \in ErrorStatusCodes, b \in ErrorBodies}
    \cup {QaOtherMsg(e) : e \in AllRaised}

\* an item that is one of the generators' messages and not an answer token
IsMessage(x) == x \in ChatMessages \cup QaMessages

MessagesIn(items) == {i \in DOMAIN items : IsMessage(items[i])}

\* a step of the call in progress (and not of a method of the session)
CallOps == {"chat", "chat_stream", "answer_stream", "next", "close"}

Ok200 == resp.kind = "http" /\ resp.status = "200"
Non200 == resp.kind = "http" /\ resp.status # "200"

\* iter_lines() raised
StreamBroke == \E i \in DOMAIN log : log[i].kind = "exc"

\* the loop body raised on a line, in chat_stream
LineBroke == IsChat(path) /\ \E i \in DOMAIN log : log[i].kind = "nonobject"

\* generation failed before the stream was complete
GenerationFailed == resp.kind = "exc" \/ Non200 \/ StreamBroke \/ LineBroke

StoresUnchanged == chat_history' = chat_history /\ cache' = cache

\* the tokens of a sequence of lines, up to and with the first terminal one
RECURSIVE ExpectedYield(_)
ExpectedYield(lines) ==
    IF lines = <<>> THEN <<>>
    ELSE LET r == Head(lines)
             t == IF r.kind = "object" /\ r.response # <<>>
                  THEN <<r.response>> ELSE <<>>
         IN  IF r.kind = "object" /\ r.done THEN t
             ELSE t \o ExpectedYield(Tail(lines))

Terminal(r) == r.kind = "object" /\ r.done

----------------------------------------------------------------------------
(* C1 *)

\* C1: in a chat call (chat_stream or chat) on a cache miss, no step taken
\* before the stream is complete changes chat_history or the cache, and no
\* step of a call whose generation has failed (requests.post raised or
\* returned a status other than 200, iter_lines() raised, or the loop body
\* raised) changes them: after a failed turn both are as before the call,
\* whatever tokens were delivered.
C1_FailedTurnLeavesStores ==
    [][ (IsChat(path') /\ lastOp' \in CallOps
            /\ (GenerationFailed' \/ pc' # "finished"))
        => StoresUnchanged ]_vars

\* a chat turn that delivered a token, then failed in mid-stream and ended,
\* with nothing recorded
C1_Witness ==
    /\ path = "chat_stream"
    /\ pc = "finished"
    /\ StreamBroke
    /\ Len(out) = 2
    /\ ~IsMessage(out[1])
    /\ IsMessage(out[2])
    /\ chat_history = <<>>
    /\ cache = EmptyCache

----------------------------------------------------------------------------
(* C2 *)

\* C2: close() on a chat_stream generator ends it there: the step changes
\* neither chat_history nor the cache, reads no line and issues no request,
\* and a closed generator takes no further step.
C2_CloseRecordsNothing ==
    [][ /\ (path' = "chat_stream" /\ lastOp' = "close")
            => /\ pc' = "closed"
               /\ StoresUnchanged
               /\ log' = log
               /\ nreq' = nreq
        /\ (path = "chat_stream" /\ pc = "closed")
            => lastOp' \notin {"next", "close"} ]_vars

\* the consumer stopped after 2 of the 5 tokens of the stubbed backend
C2_Witness ==
    /\ path = "chat_stream"
    /\ pc = "closed"
    /\ out = SubSeq(ExpectedYield(ParisScript), 1, 2)
    /\ log = SubSeq(ParisScript, 1, 2)
    /\ wire.rest = SubSeq(ParisScript, 3, 5)
    /\ chat_history = <<>>
    /\ cache = EmptyCache

----------------------------------------------------------------------------
(* C3 *)

\* C3: the step that ends a chat stream read to its end, when the yielded
\* tokens joined and trimmed are not empty, appends exactly one turn (the
\* user message, the trimmed concatenation) and adds exactly one cache
\* entry, under the call's key, with the same text; on the stubbed backend
\* the recorded answer is "Paris is the capital.".
C3_CompletedTurnRecordedOnce ==
    [][ (IsChat(path) /\ pc \in {"lines", "y_token"} /\ pc' = "finished"
            /\ lastOp' = "next" /\ Strip(Join(out')) # <<>>)
        => LET answer == Strip(Join(out')) IN
           /\ \E now \in Clock :
                chat_history' = Append(chat_history, Turn(now, msg, answer))
           /\ cache_key \notin DOMAIN cache
           /\ DOMAIN cache' = DOMAIN cache \cup {cache_key}
           /\ cache'[cache_key] = answer
           /\ \A k \in DOMAIN cache : cache'[k] = cache[k]
           /\ (log' = ParisScript => answer = ParisAnswer) ]_vars

\* the stubbed backend was read to its end and the turn is on record
C3_Witness ==
    /\ path = "chat_stream"
    /\ pc = "finished"
    /\ log = ParisScript
    /\ Len(out) = 5
    /\ Len(chat_history) = 1
    /\ \E now \in Clock : chat_history[1] = Turn(now, msg, ParisAnswer)
    /\ DOMAIN cache = {cache_key}
    /\ cache[cache_key] = ParisAnswer

----------------------------------------------------------------------------
(* C4 *)

ClearingOps == {"set_pdf_context", "clear_pdf_context", "clear_history"}

\* C4: a step of set_pdf_context, clear_pdf_context or clear_history leaves
\* the cache empty, and a step that removes an entry from the cache is a
\* step of one of these three.
C4_CacheClearedOnlyByClearingOps ==
    [][ /\ lastOp' \in ClearingOps => cache' = EmptyCache
        /\ (\E k \in DOMAIN cache : k \notin DOMAIN cache')
            => lastOp' \in ClearingOps ]_vars

\* clear_pdf_context has returned in a session with one recorded turn
C4_Witness ==
    /\ lastOp = "clear_pdf_context"
    /\ cache = EmptyCache
    /\ Len(chat_history) = 1
    /\ pdf_context = NoContext

----------------------------------------------------------------------------
(* C5 *)

\* C5: on a 200 response whose lines all arrive, and while the consumer
\* pulls, the items delivered are exactly the non-empty response fields of
\* the JSON objects read so far, in order, up to and with the first one
\* whose done is true, and no line is read after that one.
C5_StreamYieldsTokensUpToTerminal ==
    (Ok200 /\ ~StreamBroke /\ ~closing)
    => /\ out = ExpectedYield(log)
       /\ \A i \in 1..(Len(log) - 1) : ~Terminal(log[i])

----------------------------------------------------------------------------
(* C6 *)

Unparseable(r) == r.kind \in {"badjson", "nonobject"}

\* C6: a line that is not valid JSON, or is JSON but no object, is skipped:
\* no message is delivered for it, the tokens of the later lines up to the
\* terminal one are delivered, and a chat turn that ends is on record.
C6_UnparseableRecordSkipped ==
    (Ok200 /\ ~StreamBroke /\ ~closing
        /\ \E i \in DOMAIN log : Unparseable(log[i]))
    => /\ MessagesIn(out) = {}
       /\ out = ExpectedYield(log)
       /\ (IsChat(path) /\ pc = "finished" /\ Strip(Join(out)) # <<>>)
            => /\ chat_history # <<>>
               /\ \E now \in Clock :
                    chat_history[Len(chat_history)] =
                        Turn(now, msg, Strip(Join(out)))

----------------------------------------------------------------------------
(* C7 *)

\* the exception that ended the generation, if one did
TheException ==
    IF resp.kind = "exc" THEN resp.exc
    ELSE IF StreamBroke THEN log[Len(log)].exc
    ELSE ""

ConnMsg(p) == IF IsChat(p) THEN ChatConnMsg ELSE QaConnMsg
TimeoutMsg(p) == IF IsChat(p) THEN ChatTimeoutMsg ELSE QaTimeoutMsg
StatusMsgs(p) ==
    {StatusMsg(p, c, b) : c \in ErrorStatusCodes, b \in ErrorBodies}

\* generation failed by a connection failure, a timeout or a status other
\* than 200, while the consumer pulls
FailedByKnownCondition ==
    /\ ~closing
    /\ \/ Non200
       \/ IsConnectionError(TheException)
       \/ IsTimeout(TheException)

----------------------------------------------------------------------------
(* C8 *)

\* C8, as claimed: the items delivered are answer tokens only, or a single
\* message (stated for the calls in which the loop body itself did not
\* raise, so that what refutes it is a failure of the backend).
C8_TokensOrSingleMessage ==
    ~LineBroke => (MessagesIn(out) # {} => Len(out) = 1)

\* C8, amended: the items delivered are answer tokens followed by at most
\* one message, which is then the last item; no token follows a message.
C8_MessageOnlyAsLastItem ==
    \A i \in DOMAIN out : IsMessage(out[i]) => i = Len(out)

\* answer_stream delivered a token, then the message of a broken stream
C8_Witness ==
    /\ path = "answer_stream"
    /\ pc = "finished"
    /\ Len(out) = 2
    /\ ~IsMessage(out[1])
    /\ IsMessage(out[2])

----------------------------------------------------------------------------
(* C9 *)

\* C9: on a status other than 200 the message delivered carries the status
\* code and the text of the response body, on both paths.
C9_Non200SurfacesCodeAndBody ==
    Non200
    => LET m == out[Len(out)] IN
       /\ \E i \in DOMAIN m : m[i] = resp.status
       /\ \E i \in DOMAIN m : m[i] = resp.body

----------------------------------------------------------------------------
(* C10 *)

\* C10: a call issues at most one request to the backend, and none after
\* requests.post has raised or returned.
C10_AtMostOneRequest ==
    /\ nreq <= 1
    /\ resp.kind # "none" => (nreq = 1 /\ pc # "post")

\* chat() whose only request failed has returned
C10_Witness ==
    /\ path = "chat"
    /\ pc = "finished"
    /\ resp.kind = "exc"
    /\ nreq = 1

----------------------------------------------------------------------------
(* C11 *)

\* the message has an entry in the cache under the active context
Hit(m) == _get_cache_key(pdf_context, m) \in DOMAIN cache

Cached(m) == cache[_get_cache_key(pdf_context, m)]

\* C11: on a cache hit the first next() of chat_stream delivers the cached
\* answer as its only item and chat returns it; the step and the steps that
\* end the generator issue no request, deliver nothing more and leave
\* chat_history and the cache as they are.
C11_CacheHitServedWithoutRequest ==
    [][ /\ (path = "chat_stream" /\ pc = "new" /\ lastOp' = "next" /\ Hit(msg))
            => /\ out' = <<Cached(msg)>>
               /\ pc' = "y_cached"
               /\ nreq' = 0
               /\ StoresUnchanged
        /\ (lastOp' = "chat" /\ Hit(msg'))
            => /\ pc' = "finished"
               /\ ChatReturns' = Cached(msg')
               /\ nreq' = 0
               /\ StoresUnchanged
        /\ (pc = "y_cached" /\ lastOp' \in {"next", "close"})
            => /\ pc' \in {"finished", "closed"}
               /\ out' = out
               /\ nreq' = 0
               /\ StoresUnchanged ]_vars

\* the question of the one recorded turn was asked again and served from
\* the cache: one item, no request, still one turn
C11_Witness ==
    /\ path = "chat_stream"
    /\ pc = "finished"
    /\ out = <<ParisAnswer>>
    /\ nreq = 0
    /\ Len(chat_history) = 1
    /\ chat_history[1].assistant = ParisAnswer
    /\ DOMAIN cache = {cache_key}

----------------------------------------------------------------------------
(* C12 *)

\* the step is the cache check of a chat call for message m
CacheCheck(m) ==
    \/ path = "chat_stream" /\ pc = "new" /\ lastOp' = "next" /\ m = msg
    \/ lastOp' = "chat" /\ m = msg'

\* C12: the cache round trip.  The step that records a turn stores its
\* answer under the key the call computed from the context and the message;
\* every step that is not a clearing operation keeps every entry with its
\* value, and a cache check that finds the key delivers the stored value;
\* a clearing operation removes every entry, a cache check that does not
\* find the key goes on to requests.post, and the step taken there issues
\* a request.
C12_CacheRoundTrip ==
    [][ /\ \A m \in Messages : CacheCheck(m)
            => /\ cache_key' = _get_cache_key(pdf_context, m)
               /\ Hit(m) => out' = <<Cached(m)>>
               /\ ~Hit(m) => (pc' = "post" /\ nreq' = 0)
        /\ Len(chat_history') > Len(chat_history)
            => /\ cache_key' = cache_key
               /\ cache_key \in DOMAIN cache'
               /\ cache'[cache_key] = chat_history'[Len(chat_history')].assistant
        /\ lastOp' \notin ClearingOps
            => \A k \in DOMAIN cache :
                    k \in DOMAIN cache' /\ cache'[k] = cache[k]
        /\ lastOp' \in ClearingOps
            => \A k \in DOMAIN cache : k \notin DOMAIN cache'
        /\ (pc = "post" /\ lastOp' \in CallOps) => nreq' = nreq + 1 ]_vars

\* the question of the recorded turn is asked again after clear_pdf_context
\* emptied the cache: the call has issued a new request
C12_Witness ==
    /\ path = "chat_stream"
    /\ nreq = 1
    /\ pdf_context = NoContext
    /\ Len(chat_history) = 1
    /\ chat_history[1].user = msg
    /\ cache = EmptyCache

----------------------------------------------------------------------------
(* C13 *)

\* a message trimmed and put in lower case
Normalized(m) == Lower(Strip(m))

\* C13: the key _get_cache_key returns for a context and a message is the
\* key it returns, for the same context, for every message that is equal
\* to this one once both are trimmed and put in lower case.
C13_KeyIgnoresCaseAndMargin ==
    cache_key # NoKey
    => \A m \in KeyMessages :
            Normalized(m) = Normalized(msg)
            => _get_cache_key(pdf_context, m) = cache_key

\* the key of "Hh " was computed; "hh" is another message with that key
C13_Witness ==
    /\ lastOp = "_get_cache_key"
    /\ msg = <<"H", "h", " ">>
    /\ cache_key = _get_cache_key(pdf_context, <<"h", "h">>)

----------------------------------------------------------------------------
(* C14 *)

\* C14: with a digest free of collisions, the key computed for a context
\* and a message differs from the key of every other context with the same
\* message (no context, the empty context and contexts equal in their
\* first 1000 characters among them), and from the key of every message
\* that differs from this one after normalization, under the same context.
C14_KeyChangesWithContext ==
    cache_key # NoKey
    => /\ \A c \in KeyContexts :
            c # pdf_context => _get_cache_key(c, msg) # cache_key
       /\ \A m \in KeyMessages :
            Normalized(m) # Normalized(msg)
            => _get_cache_key(pdf_context, m) # cache_key

----------------------------------------------------------------------------
(* C15 *)

\* the answer tokens among the items delivered
Tokens(items) == SelectSeq(items, LAMBDA x : ~IsMessage(x))

\* C15: every turn in chat_history has an assistant message that is not
\* empty and is none of the generators' messages; a step that appends a
\* turn or adds a cache entry is the step that ends a chat stream read to
\* its end on a 200 response, and what it records is the trimmed join of
\* the tokens delivered; a step of a chat call whose tokens, joined and
\* trimmed, are empty changes neither chat_history nor the cache.
C15_OnlyCompletedAnswersRecorded ==
    [][ /\ \A i \in DOMAIN chat_history' :
              /\ chat_history'[i].assistant # <<>>
              /\ ~IsMessage(chat_history'[i].assistant)
        /\ (Len(chat_history') > Len(chat_history)
                \/ \E k \in DOMAIN cache' : k \notin DOMAIN cache)
            => /\ IsChat(path')
               /\ pc' = "finished"
               /\ Ok200'
               /\ ~GenerationFailed'
               /\ MessagesIn(out') = {}
               /\ chat_history'[Len(chat_history')].assistant
                    = Strip(Join(out'))
               /\ cache'[cache_key'] = Strip(Join(out'))
        /\ (IsChat(path') /\ lastOp' \in CallOps
                /\ Strip(Join(Tokens(out'))) = <<>>)
            => StoresUnchanged ]_vars

\* a chat stream of whitespace tokens was read to its end: nothing recorded
C15_Witness ==
    /\ path = "chat_stream"
    /\ pc = "finished"
    /\ Ok200
    /\ ~GenerationFailed
    /\ out # <<>>
    /\ Strip(Join(out)) = <<>>
    /\ chat_history = <<>>
    /\ cache = EmptyCache

----------------------------------------------------------------------------
(* C16 *)

\* C16: a step leaves chat_history as it is, or appends one turn at its end
\* and keeps every earlier turn in its place with its timestamp, user and
\* assistant message, or is a step of clear_history and leaves it empty.
C16_HistoryAppendOnly ==
    [][ \/ chat_history' = chat_history
        \/ /\ Len(chat_history') = Len(chat_history) + 1
           /\ SubSeq(chat_history', 1, Len(chat_history)) = chat_history
           /\ lastOp' = "next"
        \/ /\ lastOp' = "clear_history"
           /\ chat_history' = <<>> ]_vars

\* a second turn was appended behind the first, whose timestamp is later
C16_Witness ==
    /\ lastOp = "next"
    /\ Len(chat_history) = 2
    /\ chat_history[1].timestamp = 2
    /\ chat_history[2].timestamp = 1
    /\ chat_history[1].user # chat_history[2].user

----------------------------------------------------------------------------
(* C17 *)

Min(a, b) == IF a < b THEN a ELSE b

\* the last min(3, n) turns of a history of n turns, oldest first
Window(h) ==
    [i \in 1..Min(3, Len(h)) |-> h[Len(h) - Min(3, Len(h)) + i]]

\* a user line and an assistant line for each turn, each on a new line
RECURSIVE Rendered(_)
Rendered(turns) ==
    IF turns = <<>> THEN <<>>
    ELSE <<"\n", "User: ">> \o Head(turns).user
         \o <<"\n", "Athena: ">> \o Head(turns).assistant
         \o Rendered(Tail(turns))

ExpectedContext(h) ==
    IF h = <<>> THEN <<"This is the start of the conversation.">>
    ELSE <<"Previous conversation:">> \o Rendered(Window(h))

\* what follows the conversation context in both templates
AfterContext(m) == <<"\n\nUser: ">> \o m \o <<"\nAthena:">>

ContextMarks ==
    {"User: ", "Athena: ", "Previous conversation:",
     "This is the start of the conversation."}

\* C17: the prompt built from a history of n turns ends with the
\* conversation context followed by the user line of the new message; the
\* context is the heading and, for exactly the last min(3, n) turns in
\* their order, a user line and an assistant line, or the start line alone
\* when n = 0; nothing before it is a line of the conversation.
C17_ContextIsLastThreeTurns ==
    prompt # NoPrompt
    => LET ending == ExpectedContext(chat_history) \o AfterContext(msg)
           first == Len(prompt) - Len(ending) + 1
       IN  /\ first > 1
           /\ SubSeq(prompt, first, Len(prompt)) = ending
           /\ \A j \in 1..(first - 1) : prompt[j] \notin ContextMarks

\* a prompt was built from a history of 4 turns, the first unlike the rest
C17_Witness ==
    /\ lastOp = "prompt"
    /\ prompt # NoPrompt
    /\ Len(chat_history) = 4
    /\ \A i \in 2..4 : chat_history[i] # chat_history[1]

----------------------------------------------------------------------------
(* C18 *)

\* the message or question of the call is empty or whitespace only
BlankQuery == path # "none" /\ Strip(msg) = <<>>

\* C18: a call of chat_stream, chat or answer_stream whose message is empty
\* or whitespace only issues no request to the backend.
C18_BlankQueryIssuesNoRequest ==
    BlankQuery => nreq = 0

----------------------------------------------------------------------------
(* C19 *)

\* C19: close() on an answer_stream generator suspended after a token, and
\* every step the generator takes inside that close(), reads no line,
\* delivers nothing and raises nothing to the caller.
C19_QaCloseStopsAtOnce ==
    [][ (path = "answer_stream"
            /\ \/ pc = "y_token" /\ lastOp' = "close"
               \/ closing /\ lastOp' = "next")
        => /\ log' = log
           /\ out' = out
           /\ ~raised' ]_vars

----------------------------------------------------------------------------
(* C20 *)

\* the call ran to its end and delivered answer tokens only
QaDone == pc = "finished" /\ MessagesIn(out) = {}

\* the call ran to its end and its last item is its one message
QaFailed ==
    /\ pc = "finished"
    /\ Cardinality(MessagesIn(out)) = 1
    /\ IsMessage(out[Len(out)])

\* the stages of a one-shot QA call, the requirement that it never raises
\* left aside
QaStages ==
    /\ (path = "answer_stream" /\ pc = "new" /\ lastOp' = "next")
        => \/ /\ pc' = "post"
              /\ \E d \in DocLists \ {<<>>} : prompt' = QaPrompt(d, msg)
              /\ out' = <<>>
              /\ nreq' = 0
           \/ /\ prompt' = NoPrompt
              /\ pc' \in {"y_nocontext", "y_error"}
              /\ Len(out') = 1
              /\ IsMessage(out'[1])
              /\ nreq' = 0
    /\ (path' = "answer_stream" /\ nreq' > nreq)
        => (pc = "post" /\ prompt # NoPrompt)
    /\ (path' = "answer_stream" /\ prompt' = NoPrompt)
        => (nreq' = 0 /\ Len(out') <= 1)
    /\ (path' = "answer_stream" /\ pc' = "finished")
        => (QaDone' # QaFailed')

\* C20: the first next() of answer_stream retrieves; with at least one
\* passage it builds the prompt and stands at requests.post, otherwise it
\* delivers a single message and the call issues no request; a request is
\* issued only from there, with the prompt built; a call that has run to
\* its end is Done or Failed and not both; nothing is ever raised to the
\* caller.
C20_QaLifecycle ==
    [][ /\ QaStages
        /\ path' = "answer_stream" => ~raised' ]_vars

----------------------------------------------------------------------------
(* C21 *)

\* the steps of the second session
OtherOps ==
    {"other.set_pdf_context", "other.clear_history",
     "other.clear_pdf_context", "other.chat"}

\* the question of the first session's call is cached in the second
\* session and not in the first
CachedInOtherOnly ==
    /\ _get_cache_key(other.pdf_context, msg) \in DOMAIN other.cache
    /\ other.pdf_context = pdf_context
    /\ _get_cache_key(pdf_context, msg) \notin DOMAIN cache

\* C21: two sessions share no mutable state.  A step of the first session
\* (a method, or a step of one of its chat calls) leaves the second
\* session's chat_history, cache and document context as they were; a step
\* of the second session leaves the first session's three and its call as
\* they were; and a cache check of the first session for a question that
\* only the second session has cached is a miss: it goes on to the request
\* and delivers nothing from the other cache.
C21_SessionsShareNoState ==
    [][ /\ lastOp' \notin OtherOps => other' = other
        /\ lastOp' \in OtherOps => (session' = session /\ call' = call)
        /\ \A m \in TwoMessages :
             (CacheCheck(m) /\ CachedInOtherOnly')
                => (pc' = "post" /\ out' = <<>> /\ nreq' = 0) ]_vars

\* the first session stands at its request for a question the second
\* session, under the same document, holds an answer to, after both
\* sessions have recorded or cleared on their own
C21_Witness ==
    /\ path = "chat_stream"
    /\ pc = "post"
    /\ CachedInOtherOnly
    /\ Len(other.chat_history) = 1
    /\ Len(chat_history) = 1
    /\ pdf_context = SomeContext(<<"d">>)

----------------------------------------------------------------------------
(* C22 *)

\* the call of build_semantic_index or make_qa_chain has ended
IndexEnded == index.stage \in {"returned", "raised"}

\* C22: a call of build_semantic_index or make_qa_chain whose text yields
\* no chunk (an empty or whitespace-only text among them) or whose
\* embedding model could not be loaded ends with an exception raised and no
\* handle returned; FAISS.from_texts is never reached with zero chunks, an
\* index is built only from one chunk or more with the embedding loaded,
\* and a handle is returned only once the index is built and nothing was
\* raised.
C22_IndexBuiltOrError ==
    /\ (IndexEnded /\ (index.texts = <<>> \/ ~index.embed))
          => (index.raised # "none" /\ ~index.handle /\ ~index.built)
    /\ (IndexEnded /\ Strip(index.pdf_text) = <<>>)
          => (index.raised # "none" /\ ~index.handle)
    /\ index.stage = "from_texts" => index.texts # <<>>
    /\ index.built => (index.texts # <<>> /\ index.embed)
    /\ index.handle => (index.built /\ index.raised = "none")
    /\ index.raised # "none" => ~index.handle

\* make_qa_chain has raised ValueError for a text of whitespace only, with
\* the embedding loaded
C22_Witness ==
    /\ index.fn = "make_qa_chain"
    /\ index.stage = "raised"
    /\ index.raised = "ValueError"
    /\ index.embed
    /\ index.pdf_text = <<" ", " ">>
    /\ ~index.handle

----------------------------------------------------------------------------
(* C23 *)

\* search_semantic was called with a query that is not blank and has
\* returned
SearchReturned == search.searched /\ ~search.raised

\* C23: for a query that is not blank, search_semantic returns at most k
\* pairs (text, distance), exactly min(k, number of indexed chunks) of them,
\* in order of non-decreasing distance; the pairs are the results of the
\* underlying search, every one of them, in the same order; and when the
\* underlying search returns nothing the result is the empty sequence and
\* nothing is raised.
C23_SearchReturnsAllBestFirst ==
    SearchReturned =>
        /\ Len(search.returned) <= search.k
        /\ Len(search.returned) = Min(search.k, Len(index.texts))
        /\ \A i \in 1..(Len(search.returned) - 1) :
             search.returned[i][2] <= search.returned[i + 1][2]
        /\ Len(search.returned) = Len(search.found)
        /\ \A i \in DOMAIN search.found :
             search.returned[i] =
                 <<search.found[i].page_content, search.found[i].score>>
        /\ search.found = <<>> => search.returned = <<>>

\* a search with k above the two chunks indexed, the second chunk the
\* nearer: both come back, the second chunk first
C23_Witness ==
    /\ SearchReturned
    /\ search.k = 3
    /\ index.texts = << <<"a", "b">>, <<"a">> >>
    /\ search.scores = <<2, 1>>
    /\ search.returned = << << <<"a">>, 1 >>, << <<"a", "b">>, 2 >> >>

----------------------------------------------------------------------------
(* C24 *)

\* what answer_stream delivers for the lines of a response with status 200
RECURSIVE QaItemsOfLines(_)
QaItemsOfLines(lines) ==
    IF lines = <<>> THEN <<>>
    ELSE LET r == Head(lines) IN
         IF r.kind = "exc" THEN <<QaExceptMsg(r.exc)>>
         ELSE IF r.kind = "object"
         THEN (IF r.response # <<>> THEN <<r.response>> ELSE <<>>)
              \o (IF r.done THEN <<>> ELSE QaItemsOfLines(Tail(lines)))
         ELSE QaItemsOfLines(Tail(lines))

\* what answer_stream delivers for a backend behaviour: the outcome of the
\* request and the lines read so far
QaItems(r, lines) ==
    IF r.kind = "exc" THEN <<QaExceptMsg(r.exc)>>
    ELSE IF r.status # "200" THEN <<QaStatusMsg(r.status, r.body)>>
    ELSE QaItemsOfLines(lines)

\* a sequence of items with the wording of its messages set aside
Shape(items) ==
    [i \in DOMAIN items |-> IF IsMessage(items[i]) THEN <<"message">>
                            ELSE items[i]]

\* a streaming call that has issued its request and is not inside close()
Streaming ==
    /\ path \in {"chat_stream", "answer_stream"}
    /\ nreq = 1
    /\ ~closing
    /\ pc # "close_raised"

\* C24: for one backend behaviour (outcome of the request, lines read so
\* far, failure point) chat_stream on a cache miss and answer_stream have
\* delivered the same items: what either has delivered is what
\* answer_stream delivers for that behaviour, the wording of the messages
\* set aside.
C24_SameItemsOnBothPaths ==
    Streaming => Shape(out) = Shape(QaItems(resp, log))

----------------------------------------------------------------------------
(* C25 *)

\* the prompt opens with the document section
HasExcerpt(pr) ==
    pr # <<>> /\ pr[1] = "You are Athena, an AI research assistant.\n\nDOCUMENT:\n"

\* the document section of the prompt holds the first min(ExcerptLen,
\* length) characters of the text, and ends there
ExcerptIsPrefix(pr, text) ==
    LET n == Min(ExcerptLen, Len(text)) IN
    /\ Len(pr) >= n + 2
    /\ SubSeq(pr, 2, n + 1) = SubSeq(text, 1, n)
    /\ pr[n + 2] = "\n\n"

\* C25 as stated: a chat prompt has a document excerpt if and only if a
\* document context is set, and the excerpt is the first min(1500, length)
\* characters of the context.
C25_ExcerptIffContextSet ==
    prompt # NoPrompt =>
        /\ HasExcerpt(prompt) <=> pdf_context.some
        /\ HasExcerpt(prompt) => ExcerptIsPrefix(prompt, pdf_context.text)

\* C25: a chat prompt has a document excerpt if and only if a document
\* context is set and is not the empty text, and the excerpt is the first
\* min(1500, length) characters of the context, never more than 1500.
C25_ExcerptIffContextNotEmpty ==
    prompt # NoPrompt =>
        /\ HasExcerpt(prompt) <=> (pdf_context.some /\ pdf_context.text # <<>>)
        /\ HasExcerpt(prompt) => ExcerptIsPrefix(prompt, pdf_context.text)

\* a prompt built under a document longer than the excerpt: the section
\* ends after 1500 characters
C25_Witness ==
    /\ prompt # NoPrompt
    /\ pdf_context.some
    /\ Len(pdf_context.text) > ExcerptLen
    /\ HasExcerpt(prompt)
    /\ prompt[ExcerptLen + 1] = "x"
    /\ prompt[ExcerptLen + 2] = "\n\n"

----------------------------------------------------------------------------
(* C26 *)

\* the position of the first fragment f in a text
FirstAt(text, f) ==
    CHOOSE i \in DOMAIN text :
        text[i] = f /\ \A j \in 1..(i - 1) : text[j] # f

\* a text cut at every fragment sep: the pieces, in order
RECURSIVE SplitAt(_, _)
SplitAt(text, sep) ==
    IF \A i \in DOMAIN text : text[i] # sep THEN <<text>>
    ELSE LET i == FirstAt(text, sep) IN
         <<SubSeq(text, 1, i - 1)>> \o SplitAt(SubSeq(text, i + 1, Len(text)), sep)

\* the part of a prompt after fragment a and before fragment b
Between(text, a, b) ==
    SubSeq(text, FirstAt(text, a) + 1, FirstAt(text, b) - 1)

\* C26: the prompt answer_stream sends holds the instruction with the
\* fixed refusal sentence; after "Context:" the passages retrieved, in
\* retrieval order, one separator "\n\n---\n\n" between two of them; and
\* after "Question: " the question as given, followed by "Answer:".
C26_QaPromptContents ==
    (path = "answer_stream" /\ prompt # NoPrompt) =>
        /\ \E i \in DOMAIN prompt :
             prompt[i] = "I dont have enough information from this document to answer that question."
        /\ SplitAt(Between(prompt, "\n\nContext:\n", "\n\nQuestion: "),
                   "\n\n---\n\n") = docs
        /\ Between(prompt, "\n\nQuestion: ", "\n\nAnswer:") = msg
        /\ prompt[Len(prompt)] = "\n\nAnswer:"

\* the request has been issued with a prompt of two passages, the passage
\* "r" retrieved first
C26_Witness ==
    /\ path = "answer_stream"
    /\ nreq = 1
    /\ docs = << <<"r">>, <<"p">> >>
    /\ msg = <<"q">>
    /\ Between(prompt, "\n\nContext:\n", "\n\nQuestion: ")
          = <<"r", "\n\n---\n\n", "p">>

----------------------------------------------------------------------------
(* C27 *)

\* what chat_stream delivers for the lines of a response with status 200
RECURSIVE ChatItemsOfLines(_)
ChatItemsOfLines(lines) ==
    IF lines = <<>> THEN <<>>
    ELSE LET r == Head(lines) IN
         IF r.kind = "exc" THEN <<ChatExceptMsg(r.exc)>>
         ELSE IF r.kind = "nonobject" THEN <<ChatExceptMsg("AttributeError")>>
         ELSE IF r.kind = "object"
         THEN (IF r.response # <<>> THEN <<r.response>> ELSE <<>>)
              \o (IF r.done THEN <<>> ELSE ChatItemsOfLines(Tail(lines)))
         ELSE ChatItemsOfLines(Tail(lines))

\* what chat_stream, consumed to its end, delivers on a cache miss for a
\* backend behaviour
ChatItems(r, lines) ==
    IF r.kind = "exc" THEN <<ChatExceptMsg(r.exc)>>
    ELSE IF r.status # "200" THEN <<ChatStatusMsg(r.status, r.body)>>
    ELSE ChatItemsOfLines(lines)

\* the step with which a chat call, streaming or not, comes to its end
ChatEnds ==
    /\ IsChat(path')
    /\ pc' = "finished"
    /\ lastOp' = "chat" \/ (lastOp' = "next" /\ pc # "finished")

\* C27: chat(m) and chat_stream(m) consumed to its end are one and the same
\* in what they give and what they record.  On a cache hit either gives the
\* cached answer.  When either has come to its end, the items it was given
\* are, on a miss, the items of the backend behaviour (an error message
\* among them) and chat returns their concatenation, in order; and the step
\* that ends it records exactly one turn and one cache entry, with the
\* trimmed answer, when the call was a miss that did not fail and the
\* answer is not empty, and nothing otherwise.
C27_ChatIsConsumedStream ==
    [][ /\ \A m \in Messages :
             (CacheCheck(m) /\ Hit(m)) => Join(out') = Cached(m)
        /\ ChatEnds =>
             /\ nreq' = 0 => (Len(out') = 1 /\ StoresUnchanged)
             /\ nreq' = 1 => out' = ChatItems(resp', log')
             /\ ChatReturns' = Join(out')
             /\ IF nreq' = 1 /\ ~GenerationFailed' /\ Strip(Join(out')) # <<>>
                THEN /\ \E now \in Clock :
                          chat_history' =
                              Append(chat_history,
                                     Turn(now, msg', Strip(Join(out'))))
                     /\ cache_key' \notin DOMAIN cache
                     /\ cache' = (cache_key' :> Strip(Join(out'))) @@ cache
                ELSE StoresUnchanged ]_vars

\* chat has returned a token followed by the message of a failure in
\* mid-stream, and has recorded nothing
C27_Witness ==
    /\ path = "chat"
    /\ pc = "finished"
    /\ Len(out) = 2
    /\ ~IsMessage(out[1])
    /\ IsMessage(out[2])
    /\ ChatReturns = out[1] \o out[2]
    /\ chat_history = <<>>
    /\ cache = EmptyCache

----------------------------------------------------------------------------
(* C28 *)

\* the keys of the messages under a document context
KeysUnder(ctx) == {_get_cache_key(ctx, m) : m \in Messages}

\* C28: every entry of the cache was computed under the document context
\* that is active now: its key is the key of a message under pdf_context,
\* whatever context operations were called while a generator was suspended.
C28_CacheEntriesOfActiveContext ==
    \A k \in DOMAIN cache : k \in KeysUnder(pdf_context)

----------------------------------------------------------------------------
(* C29 *)

\* C29: when clear_history has returned while a chat_stream generator stood
\* suspended at a token, the steps of that generator that follow record
\* nothing: chat_history and the cache stay as the clear left them.
C29_StreamBeforeClearRecordsNothing ==
    [][ (lastOp = "clear_history" /\ path = "chat_stream" /\ pc = "y_token"
            /\ lastOp' = "next")
        => (chat_history' = <<>> /\ cache' = EmptyCache) ]_vars

----------------------------------------------------------------------------
(* C30 *)

\* C30: when chat(m) has returned on a cache miss and its answer is on
\* record, the string it returned is the cached answer, which chat(m)
\* returns on the next call, and is the assistant message of the turn
\* recorded.
C30_MissReturnsWhatHitReturns ==
    (path = "chat" /\ pc = "finished" /\ nreq = 1
        /\ cache_key \in DOMAIN cache)
    => /\ ChatReturns = cache[cache_key]
       /\ ChatReturns = chat_history[Len(chat_history)].assistant

----------------------------------------------------------------------------
(* C31 *)

\* the half of a cache key that is the fingerprint of the message
MessageHalf(key) == key[3]

\* the turns that answer for a cache entry: their user message has the
\* fingerprint of the key and their assistant message is the value
TurnsOf(key) ==
    {i \in DOMAIN chat_history :
        /\ Md5Hex(Normalized(chat_history[i].user)) = MessageHalf(key)
        /\ chat_history[i].assistant = cache[key]}

\* C31: every value in the cache is the assistant message of a turn now in
\* chat_history whose user message has the fingerprint the value is stored
\* under, and the cache holds no more entries than chat_history holds
\* turns.
C31_CacheBackedByHistory ==
    /\ \A k \in DOMAIN cache : TurnsOf(k) # {}
    /\ Cardinality(DOMAIN cache) <= Len(chat_history)

\* two turns on record, the first from before a change of context that
\* emptied the cache, the second with its entry
C31_Witness ==
    /\ Len(chat_history) = 2
    /\ Cardinality(DOMAIN cache) = 1
    /\ \A k \in DOMAIN cache : TurnsOf(k) = {2}
    /\ pdf_context.some

----------------------------------------------------------------------------
(* C32 *)

\* the step delivers an item to the consumer
Delivers == Len(out') > Len(out)

\* the step puts a turn in chat_history or an entry in the cache
Records ==
    \/ Len(chat_history') > Len(chat_history)
    \/ \E k \in DOMAIN cache' : k \notin DOMAIN cache

\* C32: in chat_stream, recording comes strictly after delivery.  A step
\* that delivers a token, the token of the terminal record included, leaves
\* chat_history and the cache as they are; a step that records is a step of
\* next() that delivers nothing and runs the generator to its end; while
\* the generator stands suspended at a token, a step that is not its
\* next() (close, or a method of the session) records nothing.
C32_RecordedOnResumeAfterLastToken ==
    [][ /\ (path' = "chat_stream" /\ lastOp' \in CallOps /\ Delivers)
            => StoresUnchanged
        /\ (path' = "chat_stream" /\ Records)
            => /\ lastOp' = "next"
               /\ out' = out
               /\ pc \in {"y_token", "lines"}
               /\ pc' = "finished"
        /\ (path = "chat_stream" /\ pc = "y_token" /\ lastOp' # "next")
            => ~Records ]_vars

\* the consumer has received every token of the scripted answer, the one
\* on the terminal record included, and has not pulled again: nothing is
\* on record
C32_Witness ==
    /\ path = "chat_stream"
    /\ pc = "y_token"
    /\ log = ParisScript
    /\ Join(out) = ParisAnswer
    /\ chat_history = <<>>
    /\ cache = EmptyCache

----------------------------------------------------------------------------
(* C33 *)

ReportingOps == {"get_history", "export_history"}

\* C33: the frame of the session's operations.  A step of set_pdf_context
\* or clear_pdf_context leaves chat_history as it is; a step of
\* clear_history leaves the document context as it is; a step of a chat
\* turn (the call, a pull, a close; hit, miss or failure) leaves the
\* document context, the model and the temperature as they are; a step of
\* get_history or export_history leaves chat_history, the cache and the
\* document context as they are; and no step changes the model or the
\* temperature.
C33_FrameConditions ==
    [][ /\ lastOp' \in {"set_pdf_context", "clear_pdf_context"}
            => chat_history' = chat_history
        /\ lastOp' = "clear_history" => pdf_context' = pdf_context
        /\ lastOp' \in CallOps
            => (pdf_context' = pdf_context /\ settings' = settings)
        /\ lastOp' \in ReportingOps => session' = session
        /\ settings' = settings ]_vars

\* a session built with settings of its own has a document, a turn on
\* record with its cache entry, and has exported the turn to the file
C33_Witness ==
    /\ settings # DefaultSettings
    /\ lastOp = "export_history"
    /\ result.file.text = ExportText(chat_history)
    /\ Len(chat_history) = 1
    /\ chat_history[1].assistant = ParisAnswer
    /\ pdf_context = SomeContext(<<"d">>)
    /\ cache # EmptyCache

====
